---- MODULE Spec2Model ----
(***************************************************************************)
(* A model of the islands terrain core: the chunk grid and its streaming   *)
(* step (Terrain.update), the world-position to chunk mapping              *)
(* (Terrain.getChunkCoordAt / getChunk / getChunkAt), the object preview   *)
(* and placement handlers (Terrain.handlePlayerInteraction) and the        *)
(* multiplayer service that relays placement records.                      *)
(*                                                                         *)
(* Chunk coordinates are pairs <<row, col>>.  World positions are integer  *)
(* world units.  The grid is scaled down: the sizes below are the bounds   *)
(* of the model, the source uses a 12 x 12 grid.                           *)
(***************************************************************************)
EXTENDS Integers, Sequences, FiniteSets, TLC

\* ------------------------------------------------------------------ bounds
\* Terrain.NCHUNKS_X / NCHUNKS_Z (12 in the source), scaled down.
NCHUNKS_X == 2
NCHUNKS_Z == 1
\* Chunk.WIDTH / Chunk.DEPTH in world units, scaled down.
WIDTH == 2
DEPTH == 2
\* configSvc.config.MAX_VISIBLE_CHUNKS, the half-width of the window.
MAX_VISIBLE_CHUNKS == 1
\* populate() calls counted per chunk since its last clean() (saturating).
MaxPop == 2
\* Objects the chunks hold at most, clock values, the throttle interval of the
\* preview check (1000 / 20 ms in the code) in clock units, and the length of
\* the object list of a join event.
MaxObjects == 2
MaxTime == 1
Throttle == 1
MaxReplay == 2
\* The iteration cap of placeSpecialObject (1000 in the code), scaled down.
SpecialCap == 3

SIZE_X == NCHUNKS_X * WIDTH
SIZE_Z == NCHUNKS_Z * DEPTH

\* ------------------------------------------------------------------ helpers
Coord(r, c) == [row |-> r, col |-> c]

\* Every (row, col) of the grid, as the key `${row}:${col}` of Terrain.chunks.
AllKeys == {<<r, c>> : r \in 0..(NCHUNKS_Z - 1), c \in 0..(NCHUNKS_X - 1)}

RowOf(k) == k[1]
ColOf(k) == k[2]

\* JavaScript `(a / b) | 0`: the quotient is truncated toward zero.  (The
\* 32-bit wrap of `| 0` needs a quotient of 2^31 or more, far outside the
\* positions of the model.)
TruncDiv(a, b) == IF a >= 0 THEN a \div b ELSE -((-a) \div b)

\* A variant that takes the row from x and the column from z.
getChunkCoordAtTransposed(x, z) == Coord(TruncDiv(x, WIDTH), TruncDiv(z, DEPTH))

\* Terrain.getChunkCoordAt(out, x, z)
getChunkCoordAt(x, z) ==
  Coord(TruncDiv(z, DEPTH), TruncDiv(x, WIDTH))

\* Terrain.getChunk(row, col): the chunk stored under the key, or "absent"
\* (undefined).  `m` is the set of keys of the chunk map.
Absent == <<-1, -1>>
getChunk(m, r, c) == IF <<r, c>> \in m THEN <<r, c>> ELSE Absent

\* Terrain.getChunkAt(x, z)
getChunkAt(m, x, z) ==
  LET p == getChunkCoordAt(x, z) IN getChunk(m, p.row, p.col)

\* ------------------------------------------------------------------ state
VARIABLES
  chunks,         \* Terrain.chunks: the keys of the chunk map
  chunk,          \* Terrain.chunk: the observer's chunk coordinate
  start,          \* Terrain.start: first row/col of the window
  end,            \* Terrain.end: row/col one past the window
  visibleChunks,  \* Terrain.visibleChunks: array of chunks, in push order
  visible,        \* Chunk visibility flag, per chunk (setVisible)
  dirty,          \* Chunk dirty flag, per chunk (isDirty)
  frustum,        \* the frustum passed to the last update: the chunks whose
                  \* bounding box it intersects
  cleaned,        \* chunks on which the last update invoked clean()
  populated,      \* chunks on which the last update invoked populate()
  prevVisible,    \* the chunks of visibleChunks when the last update began
  visited,        \* the (row, col) pairs the last update's loop visited
  popSinceClean,  \* populate() calls per chunk since its last clean()
  qx,             \* a world position (x), the input of the position queries
  qz,             \* a world position (z)
  found           \* the result of the last position query at (qx, qz)

streamVars == <<chunks, chunk, start, end, visibleChunks, visible, dirty,
                frustum, cleaned, populated, prevVisible, visited,
                popSinceClean>>

gridVars == <<qx, qz, found>>

VARIABLES
  hasWater,              \* generator.getBiome().hasWater()
  inited,                \* Terrain.init() has run
  used,                  \* MultiplayerService.used
  subscribed,            \* Terrain subscribed to objectPlaced$ (watchObjectPlaced)
  userId,                \* MultiplayerService.userId: <<>> or <<id>>
  onlineUsers,           \* MultiplayerService.onlineUsers: the ids holding a mesh
  previewItem,           \* Terrain.previewItem: <<>> or <<item>>
  previewObject,         \* Terrain.previewObject: <<>> or <<object>>
  currentSubBiome,       \* Terrain.currentSubBiome: <<>> or <<sub-biome>>
  intersectionSurface,   \* Terrain.intersectionSurface: <<>> or <<mesh>>
  objectAnimated,        \* Terrain.objectAnimated
  timers,                \* pending setTimeout callbacks of placeObject
  now,                   \* window.performance.now()
  lastInteractionUpdate, \* Terrain.lastInteractionUpdate
  crosshair,             \* crosshairSvc status: state, shown
  placed,                \* the objects the chunks hold, in placement order
  outbox,                \* the records emitted as CL_SEND_ADD_OBJECT, in order
  error,                 \* the error the last handler raised, or "none"
  committed              \* for the handler that ran last, if it committed
                         \* an object: the meshes whose hits gave the chunk
                         \* and the object's position

placeVars == <<hasWater, inited, used, subscribed, userId, onlineUsers,
               previewItem, previewObject, currentSubBiome, intersectionSurface,
               objectAnimated, timers, now, lastInteractionUpdate, crosshair,
               placed, outbox, error, committed>>

VARIABLES
  specialObjectList,     \* Terrain.specialObjectList
  special                \* what the last placeSpecialObject call did

specialVars == <<specialObjectList, special>>

VARIABLES
  watch,                 \* what the last preview or commit handler saw and did
  tour                   \* the frustum and the last updates of an observer's tour

watchVars == <<watch, tour>>

VARIABLES
  seed,                  \* the seed of the world
  biomes,                \* the OceanBiome constructed by each run of the program
  samples,               \* per run and position, the last two results computed
  probe                  \* the last sub-biome lookup: e, m and the answer

oceanVars == <<seed, biomes, samples, probe>>

VARIABLES
  built                  \* the chunks constructed last, with their geometry

geometryVars == <<built>>

VARIABLES
  scene,                 \* the THREE.Scene: the preview object ("preview") and
                         \* the meshes of the online users (their ids) in it
  userMesh,              \* MultiplayerService.onlineUsers: each mesh's position
  room                   \* what the last handler of a server event did

roomVars == <<scene, userMesh, room>>

vars == <<streamVars, gridVars, placeVars, specialVars, watchVars, oceanVars,
          geometryVars, roomVars>>

SeqToSet(q) == {q[i] : i \in 1..Len(q)}
Max(a, b) == IF a >= b THEN a ELSE b
Min(a, b) == IF a <= b THEN a ELSE b

\* ------------------------------------------------------------------ Chunk
\* Chunk.populate(): builds the mesh and scatters objects; afterwards the
\* chunk is no longer dirty.
ChunkPopulate(isDirty) == FALSE
\* Chunk.clean(): releases mesh and objects; afterwards the chunk is dirty
\* again.  On a chunk that is already dirty it changes nothing.
ChunkClean(isDirty) == TRUE

\* ---------------------------------------------------------------- OceanBiome
\* Numbers are fixed-point: a value v stands for v / Scale.  A noise sample
\* is a count of fifths, from -NoiseUnit (-1) to NoiseUnit (1).  NaN is the
\* empty sequence, a number v the sequence <<v>>.
Scale == 10000
NoiseUnit == 5
MaxSeed == 2
MaxElev == 2
Runs == {1, 2}

NaN == <<>>
Num(v) == <<v>>

\* The largest r with r * r <= n.
RECURSIVE SqrtBetween(_, _, _)
SqrtBetween(n, lo, hi) ==
  IF lo >= hi THEN lo
  ELSE LET mid == (lo + hi + 1) \div 2
       IN IF mid * mid <= n THEN SqrtBetween(n, mid, hi)
          ELSE SqrtBetween(n, lo, mid - 1)

\* Math.sqrt on fixed-point values
Sqrt(v) == SqrtBetween(v * Scale, 0, 2 * Scale)

\* e ** 2.25: NaN for a negative base, else e * e * sqrt(sqrt(e)).
Pow225(e) ==
  IF e < 0 THEN NaN
  ELSE Num((((e * e) \div Scale) * Sqrt(Sqrt(e))) \div Scale)

\* Math.round(v * 100) / 100, for v = num / den with den > 0: the nearest
\* hundredth, a half rounded up.
Round2(num, den) == ((200 * num + den) \div (2 * den)) * (Scale \div 100)

\* The number of OceanBiome instances constructed so far.
Constructed == Cardinality({r \in Runs : biomes[r] # <<>>})

\* MathUtils.rng(): the n-th value of the generator seeded with s, in tenths.
rng(s, n) == (s * 7 + n * 3) % 10

\* MathUtils.randomFloat(min, max) on the n-th value of the generator
randomFloat(s, n, min, max) == min + (rng(s, n) * (max - min)) \div 10

\* generator.noise / noise2 / noise3 (field 1, 2, 3) at (f * nx, f * nz),
\* where nx = dx / (1024 * div) and nz = dz / (1024 * div).
noise(s, field, f, dx, dz, div) ==
  ((s * 7 + field * 5 + f * 3 + dx * 4 + dz * 9 + div) % (2 * NoiseUnit + 1))
    - NoiseUnit

\* generator.ridgeNoise2: 1 - |noise2|
ridgeNoise2(s, f, dx, dz, div) ==
  LET n == noise(s, 2, f, dx, dz, div)
  IN NoiseUnit - (IF n < 0 THEN -n ELSE n)

\* The constructor on a generator that is not seeded again for the run.
OceanBiomeUnseeded(s, n) ==
  [seed |-> s, spike |-> randomFloat(s, n + Constructed, 250, 1250),
   depth |-> 14250]

\* new OceanBiome(generator), the constructor the n-th user of the generator
OceanBiome(s, n) ==
  [seed |-> s, spike |-> randomFloat(s, n, 250, 1250), depth |-> 14250]

\* A weight w (in 1 / Scale) times a noise sample.
Weighted(w, n) == (w * n) \div NoiseUnit

\* OceanBiome.computeElevationAt(x, z)
computeElevationAt(b, x, z) ==
  LET dx == x - SIZE_X \div 2
      dz == z - SIZE_Z \div 2
      e0 == Weighted(2000, noise(b.seed, 1, 1, dx, dz, 128))
            + Weighted(35, noise(b.seed, 1, 8, dx, dz, 128))
            + Weighted(150, noise(b.seed, 1, 32, dx, dz, 128))
            + Weighted(250, ridgeNoise2(b.seed, 8, dx, dz, 128))
            + (2500 * noise(b.seed, 1, 4, dx, dz, 128)
                    * noise(b.seed, 3, 1, dx, dz, 128)) \div (NoiseUnit * NoiseUnit)
      e1 == (e0 * Scale) \div ((2500 + 35 + 150 + 250 + 2500) - b.spike)
      e2 == Pow225(e1)
  IN IF e2 = NaN THEN NaN ELSE Num(e2[1] - b.depth)

\* OceanBiome.computeMoistureAt(x, z)
computeMoistureAt(b, x, z) ==
  LET e == Weighted(2000, noise(b.seed, 1, 1, x, z, 192))
           + Weighted(2500, noise(b.seed, 1, 4, x, z, 192))
           + Weighted(35, noise(b.seed, 2, 8, x, z, 192))
           + Weighted(500, noise(b.seed, 3, 16, x, z, 192))
  IN Num(Round2(e, 2000 + 2500 + 35 + 500))

\* OceanBiome.computeWaterMoistureAt(x, z)
computeWaterMoistureAt(b, x, z) ==
  Num(Round2(noise(b.seed, 2, 1, x, z, 192), NoiseUnit))

\* The test of getParametersAt with its bound included.
getParametersAtInclusive(e, m) ==
  IF m # NaN /\ m[1] <= 4000 THEN "CORAL_REEF" ELSE "OCEAN"

\* OceanBiome.getParametersAt(e, m): a comparison with NaN is false.
getParametersAt(e, m) ==
  IF m # NaN /\ m[1] < 4000 THEN "CORAL_REEF" ELSE "OCEAN"

\* The (e, m) pairs looked up: e any multiple of a tenth up to MaxElev tenths
\* either side of zero, or NaN; m every multiple of a hundredth from -1 to 1.
Elevations == {NaN} \cup {Num(v * (Scale \div 10)) : v \in -MaxElev..MaxElev}
Moistures == {Num(v * (Scale \div 100)) : v \in -100..100}

\* The positions the fields are computed at.
OceanPoints == {<<x, z>> : x \in {0, WIDTH + 1}, z \in {0, 1}}

NoProbe == [asked |-> FALSE, e |-> NaN, m |-> NaN, params |-> "none"]

InitOceanIdle ==
  /\ seed = 1
  /\ biomes = [r \in Runs |-> <<>>]
  /\ samples = [r \in Runs |-> [pt \in OceanPoints |-> <<>>]]
  /\ probe = NoProbe

\* ------------------------------------------------------------ Chunk geometry
\* Heights are fixed-point: a value v stands for v / HeightScale.  The
\* arguments of the simplex noise are counted in 1 / (2 * Scale).
NROWS == 4
NCOLS == 4
CELL_SIZE == 40
CHUNK_WIDTH == NCOLS * CELL_SIZE
CHUNK_DEPTH == NROWS * CELL_SIZE
MAX_CHUNK_HEIGHT == 1200
MIN_CHUNK_HEIGHT == -300
Octaves == 8
HeightScale == 100
MeshRows == 2
MeshCols == 4

\* simplex.noise2D(x, y) of the simplex seeded with s: a count of fifths
noise2D(s, x, y) == ((s * 7 + x * 3 + y * 5) % (2 * NoiseUnit + 1)) - NoiseUnit

\* Utils.clamp(v, min, max)
clamp(v, min, max) == Max(min, Min(v, max))

\* r ** 20 for r in hundredths, by squaring: r^2, r^4, r^5, r^10, r^20
Pow20(r) ==
  LET r2 == (r * r) \div HeightScale
      r4 == (r2 * r2) \div HeightScale
      r5 == (r4 * r) \div HeightScale
      r10 == (r5 * r5) \div HeightScale
  IN (r10 * r10) \div HeightScale

\* The largest r in lo..hi with r ** 20 <= e: e ** 0.05
RECURSIVE Root20(_, _, _)
Root20(e, lo, hi) ==
  IF lo >= hi THEN lo
  ELSE LET mid == (lo + hi + 1) \div 2
       IN IF Pow20(mid) <= e THEN Root20(e, mid, hi)
          ELSE Root20(e, lo, mid - 1)

\* Math.pow(e, 1.05) for e > 0: e * e ** 0.05
Pow105(e) == (e * Root20(e, 0, 150)) \div HeightScale

\* The loop of sumOctaves from octave i on: the sum of amp * noise2D(f * nx,
\* f * nz), with amp (in 1 / HeightScale) divided and f (in 1 / Scale)
\* multiplied by 1.9 after each octave; nx2 and nz2 are 2 * nx and 2 * nz.
RECURSIVE OctaveSum(_, _, _, _, _, _)
OctaveSum(s, nx2, nz2, amp, f, i) ==
  IF i >= Octaves THEN 0
  ELSE (amp * noise2D(s, f * nx2, f * nz2)) \div NoiseUnit
       + OctaveSum(s, nx2, nz2, (amp * 10) \div 19, (f * 19) \div 10, i + 1)

\* Chunk.sumOctaves(x, z) with the simplex seeded with s, for x and z
\* multiples of half a cell
sumOctaves(s, x, z) ==
  LET nx2 == (2 * x) \div CELL_SIZE - 1
      nz2 == (2 * z) \div CELL_SIZE - 1
      e == OctaveSum(s, nx2, nz2, 575 * HeightScale, 75, 0)
  IN clamp(IF e > 0 THEN Pow105(e) ELSE e \div 3,
           MIN_CHUNK_HEIGHT * HeightScale, MAX_CHUNK_HEIGHT * HeightScale)

\* The vertex pushed for the column c and the row r of vertices: its place in
\* geometry.vertices
VertexIndex(c, r) == c * (NROWS + 1) + r + 1

\* buildGeometry with the heights sampled at the chunk's own coordinates
buildGeometryLocal(s, row, col) ==
  [i \in 1..((NCOLS + 1) * (NROWS + 1)) |->
     LET c == (i - 1) \div (NROWS + 1)
         r == (i - 1) % (NROWS + 1)
     IN <<col * CHUNK_WIDTH + c * CELL_SIZE,
          sumOctaves(s, c * CELL_SIZE, r * CELL_SIZE),
          row * CHUNK_DEPTH + r * CELL_SIZE>>]

\* Chunk.buildGeometry() of the chunk (row, col): geometry.vertices, each
\* vertex <<x, y, z>>, pushed column by column
buildGeometry(s, row, col) ==
  [i \in 1..((NCOLS + 1) * (NROWS + 1)) |->
     LET c == (i - 1) \div (NROWS + 1)
         r == (i - 1) % (NROWS + 1)
         x == col * CHUNK_WIDTH + c * CELL_SIZE
         z == row * CHUNK_DEPTH + r * CELL_SIZE
     IN <<x, sumOctaves(s, x, z), z>>]

InitGeometryIdle == built = <<>>

\* ------------------------------------------------------------------ Terrain
\* Terrain constructor: empty chunk map, no visible chunk, Coord() is (0, 0).
InitTerrain ==
  /\ chunks = {}
  /\ chunk = Coord(0, 0)
  /\ start = Coord(0, 0)
  /\ end = Coord(0, 0)
  /\ visibleChunks = <<>>
  /\ visible = [k \in AllKeys |-> FALSE]
  /\ dirty = [k \in AllKeys |-> TRUE]
  /\ frustum = {}
  /\ cleaned = {}
  /\ populated = {}
  /\ prevVisible = {}
  /\ visited = {}
  /\ popSinceClean = [k \in AllKeys |-> 0]

\* loadChunks with both loops running up to and including their end.
loadChunksInclusive(m, startRow, startCol, endRow, endCol) ==
  m \cup {<<r, c>> : r \in startRow..endRow, c \in startCol..endCol}

\* Terrain.loadChunks(startRow, startCol, endRow, endCol): the keys set.
loadChunks(m, startRow, startCol, endRow, endCol) ==
  m \cup {<<r, c>> : r \in startRow..(endRow - 1), c \in startCol..(endCol - 1)}

\* Terrain.preload(): loads every chunk of the region; loadChunk creates each
\* chunk dirty and invisible.
Preload ==
  /\ chunks = {}
  /\ chunks' = loadChunks(chunks, 0, 0, NCHUNKS_Z, NCHUNKS_X)
  /\ UNCHANGED <<chunk, start, end, visibleChunks, visible, dirty, frustum,
                 cleaned, populated, prevVisible, visited, popSinceClean>>
  /\ UNCHANGED <<gridVars, placeVars, specialVars, watchVars, oceanVars, geometryVars, roomVars>>

\* Terrain.update, the window: start = chunk - MAX_VISIBLE_CHUNKS and
\* end = chunk + MAX_VISIBLE_CHUNKS, then the four clamps.
\* Variants of the window arithmetic, used to test what the properties depend on.
WindowEndUnclamped(ch) ==
  Coord(ch.row + MAX_VISIBLE_CHUNKS, ch.col + MAX_VISIBLE_CHUNKS)

WindowStart(ch) ==
  Coord(Max(ch.row - MAX_VISIBLE_CHUNKS, 0), Max(ch.col - MAX_VISIBLE_CHUNKS, 0))
WindowEnd(ch) ==
  Coord(Min(ch.row + MAX_VISIBLE_CHUNKS, NCHUNKS_Z),
        Min(ch.col + MAX_VISIBLE_CHUNKS, NCHUNKS_X))

\* Terrain.update, the test of the reset loop: the chunk is inside the window.
InsideWindowWithMargin(k, s, e) ==
  /\ ColOf(k) >= s.col - 1 /\ ColOf(k) < e.col + 1
  /\ RowOf(k) >= s.row - 1 /\ RowOf(k) < e.row + 1

InsideWindow(k, s, e) ==
  /\ ColOf(k) >= s.col
  /\ ColOf(k) < s.col + (e.col - s.col)
  /\ RowOf(k) >= s.row
  /\ RowOf(k) < s.row + (e.row - s.row)

\* The reset loop calling clean() on every previously visible chunk.
ChunksToCleanAll(q, s, e) == SeqToSet(q)

\* Terrain.update, the reset loop: the previously visible chunks it cleans.
ChunksToClean(q, s, e) == {k \in SeqToSet(q) : ~InsideWindow(k, s, e)}

\* The populate loop running up to and including end.row and end.col.
LoopSeqInclusive(s, e) ==
  LET nr == Max(e.row - s.row + 1, 0)
      nc == Max(e.col - s.col + 1, 0)
  IN [n \in 1..(nr * nc) |-> <<s.row + ((n - 1) \div nc), s.col + ((n - 1) % nc)>>]

\* Terrain.update, the populate loop: the (row, col) pairs it visits, in order
\* (rows from start.row to end.row - 1, columns from start.col to end.col - 1).
LoopSeq(s, e) ==
  LET nr == Max(e.row - s.row, 0)
      nc == Max(e.col - s.col, 0)
  IN [n \in 1..(nr * nc) |-> <<s.row + ((n - 1) \div nc), s.col + ((n - 1) % nc)>>]

\* Terrain.update, the populate loop: populate() is called when isDirty().
ShouldPopulateAlways(isDirty) == TRUE

ShouldPopulate(isDirty) == isDirty

\* Terrain.update, the visible flags with the reset loop left out.
MarkWithoutReset(flags, old, new) ==
  [k \in AllKeys |-> k \in new \/ flags[k]]

\* Terrain.update, the visible flags: setVisible(false) on every chunk of the
\* old visibleChunks, then setVisible(true) on every chunk pushed on the new.
ResetAndMark(flags, old, new) ==
  [k \in AllKeys |->
     IF k \in new THEN TRUE ELSE IF k \in old THEN FALSE ELSE flags[k]]

\* Terrain.update(frustum, position, delta).  F is the set of chunks whose
\* bounding box the frustum intersects.  The conjuncts follow the order of the
\* code: the window, the reset loop over the previously visible chunks
\* (setVisible(false), clean() outside the window), the populate loop over
\* the window (populate() if dirty, setVisible(true), push).
Update(x, z, F) ==
  /\ chunk' = getChunkCoordAt(x, z)
  /\ start' = WindowStart(chunk')
  /\ end' = WindowEnd(chunk')
  /\ prevVisible' = SeqToSet(visibleChunks)
  /\ cleaned' = ChunksToClean(visibleChunks, start', end')
  /\ visited' = SeqToSet(LoopSeq(start', end'))
  /\ visibleChunks' =
       SelectSeq(LoopSeq(start', end'),
                 LAMBDA k : getChunk(chunks, k[1], k[2]) # Absent /\ k \in F)
  /\ visible' = ResetAndMark(visible, SeqToSet(visibleChunks),
                             SeqToSet(visibleChunks'))
  /\ populated' =
       {k \in SeqToSet(visibleChunks') :
          ShouldPopulate(IF k \in cleaned' THEN ChunkClean(dirty[k]) ELSE dirty[k])}
  /\ dirty' =
       [k \in AllKeys |->
          IF k \in populated' THEN ChunkPopulate(dirty[k])
          ELSE IF k \in cleaned' THEN ChunkClean(dirty[k])
          ELSE dirty[k]]
  /\ popSinceClean' =
       [k \in AllKeys |->
          IF k \in populated'
            THEN Min((IF k \in cleaned' THEN 0 ELSE popSinceClean[k]) + 1, MaxPop)
          ELSE IF k \in cleaned' THEN 0
          ELSE popSinceClean[k]]
  /\ frustum' = F
  /\ UNCHANGED chunks

\* Observer positions: one point inside every chunk column and row, the far
\* edge of the world (x = SIZE_X, z = SIZE_Z), and along x one point so far
\* outside that the window misses the grid.
ObserverX ==
  {c * WIDTH + 1 : c \in 0..(NCHUNKS_X - 1)} \cup {SIZE_X}
    \cup {-(MAX_VISIBLE_CHUNKS + 1) * WIDTH}
ObserverZ ==
  {r * DEPTH + 1 : r \in 0..(NCHUNKS_Z - 1)} \cup {SIZE_Z}

\* Frustums: the chunks whose bounding box the frustum intersects are a band
\* of columns, a band of rows, or none.
Frustums ==
  {{k \in AllKeys : ColOf(k) >= c1 /\ ColOf(k) <= c2} :
     c1 \in 0..(NCHUNKS_X - 1), c2 \in 0..(NCHUNKS_X - 1)}
  \cup
  {{k \in AllKeys : RowOf(k) >= r1 /\ RowOf(k) <= r2} :
     r1 \in 0..(NCHUNKS_Z - 1), r2 \in 0..(NCHUNKS_Z - 1)}

\* One update() call, its position drawn from xs and zs and its frustum from Fs.
UpdateStep(xs, zs, Fs) ==
  /\ \E x \in xs, z \in zs, F \in Fs : Update(x, z, F)
  /\ UNCHANGED <<gridVars, placeVars, specialVars, watchVars, oceanVars, geometryVars, roomVars>>

\* No position query is pending.
NoQuery == [asked |-> FALSE, loaded |-> FALSE, coord |-> Coord(0, 0), chunk |-> Absent]

InitGridIdle == qx = 0 /\ qz = 0 /\ found = NoQuery

\* Terrain's interaction fields and the multiplayer service after construction.
NoCommit == [chunk |-> "none", position |-> "none"]

\* No placeSpecialObject call made yet.
NoSpecial ==
  [called |-> FALSE, underwater |-> FALSE, it |-> 0, capped |-> FALSE,
   stale |-> FALSE, draw |-> <<>>, added |-> <<>>]

\* The observation of a handler: the preview fields it started from, the hit
\* of its ray, how far it went, the pick it requested, what the pick and
\* canPlaceObject answered, the object it took out of the scene, and the
\* clock values of the last two runs of manageObjectPreview.
WatchIdle ==
  [on |-> TRUE, kind |-> "none", checkedAt |-> <<>>, hit |-> <<>>,
   before |-> <<>>, stage |-> "none", pick |-> <<>>, item |-> <<>>,
   can |-> "skipped", removed |-> <<>>, count |-> 0]

\* No tour is under way.
NoTour == [frustum |-> {}, log |-> <<>>]

\* No observation is kept.
Unwatched == [WatchIdle EXCEPT !.on = FALSE]

DefaultCrosshair == [state |-> "DEFAULT", shown |-> TRUE]

\* new Map(): no user holds a mesh.
NoMeshes == [u \in {} |-> <<0, 0, 0>>]

\* No server event handled yet.
RoomIdle ==
  [on |-> TRUE, kind |-> "none", first |-> FALSE, offered |-> <<>>,
   emitted |-> <<>>, replays |-> 0, user |-> <<>>, before |-> {},
   meshBefore |-> NoMeshes, notified |-> 0, connected |-> {}]

\* No observation of the server's events is kept.
Unheard == [RoomIdle EXCEPT !.on = FALSE]

InitInteraction ==
  /\ inited = FALSE
  /\ used = FALSE
  /\ subscribed = FALSE
  /\ userId = <<>>
  /\ onlineUsers = {}
  /\ previewItem = <<>>
  /\ previewObject = <<>>
  /\ currentSubBiome = <<>>
  /\ intersectionSurface = <<>>
  /\ objectAnimated = FALSE
  /\ timers = 0
  /\ now = 0
  /\ lastInteractionUpdate = 0
  /\ crosshair = DefaultCrosshair
  /\ placed = <<>>
  /\ outbox = <<>>
  /\ error = "none"
  /\ committed = NoCommit
  /\ specialObjectList = <<>>
  /\ special = NoSpecial
  /\ scene = {}
  /\ userMesh = NoMeshes

InitPlaceIdle ==
  /\ hasWater = TRUE /\ InitInteraction /\ watch = Unwatched /\ tour = NoTour
  /\ InitOceanIdle
  /\ InitGeometryIdle
  /\ room = Unheard

\* The streaming step: the terrain after construction, then preload() and any
\* sequence of update() calls.
InitStream == InitTerrain /\ InitGridIdle /\ InitPlaceIdle
NextStream == Preload \/ UpdateStep(ObserverX, ObserverZ, Frustums)
SpecStream == InitStream /\ [][NextStream]_vars

\* The same step with the observer inside the world or on its far edge along
\* x, and the frustum a band of columns or empty: chunks leave the frustum and
\* come back while the window moves.
NextFrustum ==
  \/ Preload
  \/ UpdateStep({c * WIDTH + 1 : c \in 0..(NCHUNKS_X - 1)} \cup {SIZE_X},
                {r * DEPTH + 1 : r \in 0..(NCHUNKS_Z - 1)},
                {{k \in AllKeys : ColOf(k) >= c1 /\ ColOf(k) <= c2} :
                   c1 \in 0..(NCHUNKS_X - 1), c2 \in 0..(NCHUNKS_X - 1)}
                  \cup {{}})
SpecFrustum == InitStream /\ [][NextFrustum]_vars

\* A tour: the observer moves from position to position under one frustum
\* predicate; the last three updates are kept, each with its position, the
\* observer's chunk and the chunks it left visible.
LastThree(s) == IF Len(s) <= 3 THEN s ELSE SubSeq(s, Len(s) - 2, Len(s))

InitTour ==
  /\ InitTerrain /\ InitGridIdle
  /\ hasWater = TRUE /\ InitInteraction /\ watch = Unwatched
  /\ tour \in {[frustum |-> F, log |-> <<>>] : F \in Frustums}
  /\ InitOceanIdle
  /\ InitGeometryIdle
  /\ room = Unheard

\* update(frustum, position) with the frustum predicate of the tour
TourUpdate ==
  /\ \E x \in ObserverX, z \in ObserverZ :
       /\ Update(x, z, tour.frustum)
       /\ tour' = [tour EXCEPT !.log =
                     LastThree(Append(@, [x |-> x, z |-> z,
                                          chunk |-> chunk',
                                          loaded |-> chunks # {},
                                          list |-> SeqToSet(visibleChunks'),
                                          flags |-> {k \in AllKeys : visible'[k]}]))]
  /\ UNCHANGED watch
  /\ UNCHANGED <<gridVars, placeVars, specialVars, oceanVars, geometryVars, roomVars>>

NextTour == Preload \/ TourUpdate
SpecTour == InitTour /\ [][NextTour]_vars

\* ------------------------------------------------------------------ queries
\* Positions of the queries: every integer position from beyond the window's
\* reach on the negative side to beyond it past the far edge of the world.
QueryX == (-(MAX_VISIBLE_CHUNKS + 1) * WIDTH - 1)..(SIZE_X + (MAX_VISIBLE_CHUNKS + 1) * WIDTH)
QueryZ == (-(MAX_VISIBLE_CHUNKS + 1) * DEPTH - 1)..(SIZE_Z + (MAX_VISIBLE_CHUNKS + 1) * DEPTH)

InitGrid ==
  /\ InitTerrain /\ InitPlaceIdle
  /\ qx \in QueryX /\ qz \in QueryZ /\ found = NoQuery

\* getChunkCoordAt(new Coord(), qx, qz) and getChunkAt(qx, qz)
Lookup ==
  /\ found' = [asked |-> TRUE,
               loaded |-> chunks # {},
               coord |-> getChunkCoordAt(qx, qz),
               chunk |-> getChunkAt(chunks, qx, qz)]
  /\ UNCHANGED <<qx, qz>>
  /\ UNCHANGED <<streamVars, placeVars, specialVars, watchVars, oceanVars, geometryVars, roomVars>>

\* update(frustum, position) with the observer at (qx, qz)
UpdateAt ==
  /\ \E F \in {AllKeys, {}} : Update(qx, qz, F)
  /\ UNCHANGED <<gridVars, placeVars, specialVars, watchVars, oceanVars, geometryVars, roomVars>>

NextGrid == Preload \/ Lookup \/ UpdateAt
SpecGrid == InitGrid /\ [][NextGrid]_vars

\* ------------------------------------------------------------ interaction
\* Points a ray can hit, as (x, z): one inside the first chunk, one inside the
\* second chunk, one on the far edge of the terrain mesh.
HitPoints == {<<1, 1>>, <<WIDTH + 1, 1>>, <<SIZE_X, 1>>}

\* raycaster.intersectObjects([water, terrain]): the meshes hit, nearest
\* first, at a point, with the first hit within interaction distance or not.
Rays ==
  {[hits |-> h, point |-> pt, near |-> TRUE, so |-> FALSE] :
     h \in {<<"terrain">>, <<"water">>, <<"water", "terrain">>, <<"terrain", "water">>},
     pt \in HitPoints}
  \cup {[hits |-> <<"terrain">>, point |-> <<1, 1>>, near |-> FALSE, so |-> FALSE],
        [hits |-> <<>>, point |-> <<1, 1>>, near |-> FALSE, so |-> FALSE]}

\* Rays that also hit a special object closer than SO_INTERACTION_DISTANCE
\* (the field so), if there is one.
SpecialRays ==
  {[hits |-> <<"terrain">>, point |-> <<1, 1>>, near |-> TRUE, so |-> TRUE],
   [hits |-> <<>>, point |-> <<1, 1>>, near |-> FALSE, so |-> TRUE]}

getPlayerInteractionIntersection(ray) ==
  IF Len(ray.hits) = 0 THEN <<>>
  ELSE <<[object |-> ray.hits[1], point |-> ray.point, near |-> ray.near]>>

\* The border zone, its offset scaled down to zero with the world.
intersectBorder(pt) ==
  \/ pt[1] = 0 \/ pt[1] = SIZE_X
  \/ pt[2] = 0 \/ pt[2] = SIZE_Z

\* generator.getSubBiome(computeElevationAt, computeMoistureAt): one
\* sub-biome over the first column of chunks, another over the rest.
getSubBiome(pt) == IF pt[1] < WIDTH THEN "beach" ELSE "forest"

\* Chunk.pick(x, z, {force, float}): a candidate of the sub-biome at the
\* point, or nothing (found = FALSE).
ChunkPick(pt, float, got) ==
  IF got THEN <<[n |-> getSubBiome(pt), p |-> pt, f |-> float]>> ELSE <<>>

\* Chunk.getObject(item): a new renderable at the item's position. The field
\* src remembers which hit last gave the object its position.
ChunkGetObject(item, src) == [n |-> item.n, p |-> item.p, f |-> item.f, src |-> src]

\* The objects a chunk holds.
ObjectsOf(objs, k) == {i \in 1..Len(objs) : objs[i].chunk = k}

\* Chunk.canPlaceObject(object): no object of the chunk is closer than the
\* minimum separation (here: none at the same point).
ChunkCanPlaceObject(objs, k, object) ==
  \A i \in ObjectsOf(objs, k) : objs[i].p # object.p

\* Chunk.placeObject(object, {animate, save}): the chunk owns the object.
\* The field origin remembers who placed it.
ChunkPlaceObject(objs, k, object, origin) ==
  Append(objs, [chunk |-> k, n |-> object.n, p |-> object.p, f |-> object.f,
                origin |-> origin])

\* The preview fields of Terrain and the crosshair, as one value.
PreviewState ==
  [item |-> previewItem, object |-> previewObject, biome |-> currentSubBiome,
   surface |-> intersectionSurface, cross |-> crosshair, scene |-> scene]

\* resetPreview() without its last line, the crosshair's switch to DEFAULT.
resetPreviewKeepsCrosshair(ps) ==
  [ps EXCEPT !.item = <<>>, !.biome = <<>>, !.surface = <<>>, !.object = <<>>,
             !.scene = @ \ {"preview"}]

\* resetPreview() without the removal of the preview object.
resetPreviewKeepsObject(ps) ==
  [ps EXCEPT !.item = <<>>, !.biome = <<>>, !.surface = <<>>,
             !.cross.state = "DEFAULT"]

\* resetPreview(): scene.remove(previewObject) if there is one
resetPreview(ps) ==
  [ps EXCEPT !.item = <<>>, !.biome = <<>>, !.surface = <<>>, !.object = <<>>,
             !.scene = @ \ {"preview"}, !.cross.state = "DEFAULT"]

\* What a preview handler leaves behind: the preview fields, the error it
\* raised, and what it did on the way.
Outcome(ps, err) ==
  [ps |-> ps, err |-> err, stage |-> "none", pick |-> <<>>, item |-> <<>>,
   can |-> "skipped", removed |-> <<>>]

At(out, stage) == [out EXCEPT !.stage = stage]

\* The options of the pick manageObjectPreview requests.
PickOptionsSunk(surface) == [force |-> TRUE, float |-> FALSE]

PickOptions(surface) == [force |-> TRUE, float |-> surface = "water"]

\* manageObjectPreview, from the pick on: ps is the state after the range test.
ManageCandidate(ps, i, ch, got) ==
  LET fresh == \/ ps.item = <<>>
               \/ ps.biome # <<getSubBiome(i.point)>>
               \/ ps.surface # <<i.object>>
      opts == PickOptions(i.object)
      item == ChunkPick(i.point, opts.float, got)
      ps1 == IF ~fresh THEN ps
             ELSE [resetPreview(ps) EXCEPT
                     !.biome = <<getSubBiome(i.point)>>,
                     !.surface = <<i.object>>,
                     !.item = item,
                     !.object = IF item = <<>> THEN <<>>
                                ELSE <<ChunkGetObject(item[1], i.object)>>,
                     !.scene = IF item = <<>> THEN @ ELSE @ \cup {"preview"}]
      seen == [At(Outcome(ps, "none"), "candidate") EXCEPT
                 !.pick = IF fresh
                            THEN <<[chunk |-> ch, point |-> i.point,
                                    force |-> opts.force, float |-> opts.float]>>
                            ELSE <<>>,
                 !.item = IF fresh /\ ch # Absent THEN item ELSE <<>>,
                 !.removed = IF fresh THEN ps.object ELSE <<>>]
  IN IF ch = Absent
       THEN [seen EXCEPT
               !.ps = IF fresh THEN [resetPreview(ps) EXCEPT
                                       !.biome = <<getSubBiome(i.point)>>,
                                       !.surface = <<i.object>>]
                      ELSE ps,
               !.err = "AbsentChunk"]
     ELSE IF fresh /\ item = <<>> THEN [seen EXCEPT !.ps = resetPreview(ps1)]
     ELSE IF ~ChunkCanPlaceObject(placed, ch, ps1.object[1])
       THEN [seen EXCEPT !.ps = resetPreview(ps1), !.can = "false"]
     ELSE [seen EXCEPT
             !.ps = [ps1 EXCEPT !.cross.state = "CAN_PLACE_OBJECT",
                                !.object[1].p = i.point,
                                !.object[1].src = i.object],
             !.can = "true"]

\* manageSpecialObject, the test: a special object exists and the ray hits
\* one closer than SO_INTERACTION_DISTANCE.
HitsSpecialObject(ray) == specialObjectList # <<>> /\ ray.so

\* manageSpecialObject with the preview left as it is.
manageSpecialObjectKeepsPreview(ps) ==
  [ps EXCEPT !.cross.state = "CAN_INTERACT_WITH_OBJECT"]

\* manageSpecialObject, the branch returning true: resetPreview() and the
\* crosshair's switch.
manageSpecialObject(ps) ==
  [resetPreview(ps) EXCEPT !.cross.state = "CAN_INTERACT_WITH_OBJECT"]

\* manageObjectPreview(raycaster)
manageObjectPreview(ps, ray, got) ==
  LET hit == getPlayerInteractionIntersection(ray)
  IN IF objectAnimated THEN At(Outcome(ps, "none"), "animated")
     ELSE IF HitsSpecialObject(ray)
       THEN At(Outcome(manageSpecialObject(ps), "none"), "special")
     ELSE IF hit = <<>>
       THEN At(Outcome(resetPreview([ps EXCEPT !.cross.shown = FALSE]), "none"),
               "nohit")
     ELSE LET i == hit[1]
              ch == getChunkAt(chunks, i.point[1], i.point[2])
              inNotInRange == ~i.near \/ intersectBorder(i.point)
              ps1 == [ps EXCEPT !.cross.shown = ~inNotInRange]
          IN IF inNotInRange THEN At(Outcome(resetPreview(ps1), "none"), "range")
             ELSE ManageCandidate(ps1, i, ch, got)

\* updateObjectPreview(raycaster)
updateObjectPreview(ps, ray) ==
  LET hit == getPlayerInteractionIntersection(ray)
  IN IF ps.object = <<>> THEN Outcome(ps, "none")
     ELSE IF hit = <<>> THEN Outcome(ps, "NullIntersection")
     ELSE Outcome([ps EXCEPT !.object[1].p = hit[1].point,
                             !.object[1].src = hit[1].object], "none")

\* The preview fields and the crosshair take the values of ps.
SetPreview(ps) ==
  /\ previewItem' = ps.item
  /\ previewObject' = ps.object
  /\ currentSubBiome' = ps.biome
  /\ intersectionSurface' = ps.surface
  /\ crosshair' = ps.cross
  /\ scene' = ps.scene

Started == inited /\ chunks # {}

\* Terrain.init()
TerrainInit ==
  /\ ~inited
  /\ inited' = TRUE
  /\ subscribed' = used
  /\ UNCHANGED <<hasWater, used, userId, onlineUsers, previewItem, previewObject,
                 currentSubBiome, intersectionSurface, objectAnimated, timers,
                 now, lastInteractionUpdate, crosshair, placed, outbox, error, committed>>
  /\ UNCHANGED <<streamVars, gridVars, specialVars, watchVars, oceanVars, geometryVars, roomVars>>

\* MultiplayerService.init(scene, seed)
MultiplayerInit ==
  /\ ~used
  /\ used' = TRUE
  /\ UNCHANGED <<hasWater, inited, subscribed, userId, onlineUsers, previewItem,
                 previewObject, currentSubBiome, intersectionSurface,
                 objectAnimated, timers, now, lastInteractionUpdate, crosshair,
                 placed, outbox, error, committed>>
  /\ UNCHANGED <<streamVars, gridVars, specialVars, watchVars, oceanVars, geometryVars, roomVars>>

\* window.performance.now() advances.
Tick ==
  /\ now < MaxTime
  /\ now' = now + 1
  /\ UNCHANGED <<hasWater, inited, used, subscribed, userId, onlineUsers,
                 previewItem, previewObject, currentSubBiome, intersectionSurface,
                 objectAnimated, timers, lastInteractionUpdate, crosshair,
                 placed, outbox, error, committed>>
  /\ UNCHANGED <<streamVars, gridVars, specialVars, watchVars, oceanVars, geometryVars, roomVars>>

\* The observation kept of a handler, where one is kept.
Note(rec) == IF watch.on THEN rec ELSE watch

\* The last two of a sequence of clock values.
LastTwo(s) == IF Len(s) <= 2 THEN s ELSE SubSeq(s, Len(s) - 1, Len(s))

\* The clock value before which no check runs again, without the interval.
NextInteractionUpdateAtOnce(t) == t

\* now + 1000 / 20
NextInteractionUpdate(t) == t + Throttle

\* handlePlayerInteraction(raycaster, MOUSE_MOVE), the ray one of rays
MouseMoveWith(rays) ==
  /\ Started
  /\ \E ray \in rays, got \in BOOLEAN :
       LET check == now >= lastInteractionUpdate
       IN \E r \in {IF check
                      THEN manageObjectPreview(PreviewState, ray, got)
                      ELSE updateObjectPreview(PreviewState, ray)} :
          /\ lastInteractionUpdate' =
               IF check THEN NextInteractionUpdate(now)
               ELSE lastInteractionUpdate
          /\ SetPreview(r.ps)
          /\ error' = r.err
          /\ committed' = NoCommit
          /\ watch' = Note([on |-> TRUE,
                            kind |-> IF check THEN "check" ELSE "track",
                            checkedAt |-> IF check
                                            THEN LastTwo(Append(watch.checkedAt, now))
                                            ELSE watch.checkedAt,
                            hit |-> getPlayerInteractionIntersection(ray),
                            before |-> <<PreviewState>>,
                            stage |-> r.stage, pick |-> r.pick, item |-> r.item,
                            can |-> r.can, removed |-> r.removed,
                            count |-> Len(placed)])
          /\ UNCHANGED tour
  /\ UNCHANGED <<hasWater, inited, used, subscribed, userId, onlineUsers,
                 objectAnimated, timers, now, placed, outbox>>
  /\ UNCHANGED <<userMesh, room>>
  /\ UNCHANGED <<streamVars, gridVars, specialVars, oceanVars, geometryVars>>

MouseMove == MouseMoveWith(Rays)

\* The hits placeObject does not skip: water hits count only with water enabled.
UsableHits(ray) == SelectSeq(ray.hits, LAMBDA h : hasWater \/ h # "water")

\* placeObject(raycaster)
placeObject(ray) ==
  LET ch == getChunkAt(chunks, ray.point[1], ray.point[2])
      object == previewObject[1]
  IN IF previewObject = <<>>
       THEN \* crosshairSvc.shake(true) leaves the crosshair's state as it is
            /\ error' = "none"
            /\ committed' = NoCommit
            /\ UNCHANGED <<previewItem, previewObject, currentSubBiome,
                           intersectionSurface, objectAnimated, timers, placed,
                           outbox, crosshair, scene>>
     ELSE IF UsableHits(ray) = <<>>
       THEN /\ error' = "none"
            /\ committed' = NoCommit
            /\ UNCHANGED <<previewItem, previewObject, currentSubBiome,
                           intersectionSurface, objectAnimated, timers, placed,
                           outbox, crosshair, scene>>
     ELSE IF ch = Absent
       THEN /\ error' = "AbsentChunk"
            /\ committed' = NoCommit
            /\ UNCHANGED <<previewItem, previewObject, currentSubBiome,
                           intersectionSurface, objectAnimated, timers, placed,
                           outbox, crosshair, scene>>
     ELSE /\ placed' = ChunkPlaceObject(placed, ch, object, "local")
          /\ committed' = [chunk |-> UsableHits(ray)[1], position |-> object.src]
          /\ outbox' = IF used
                         THEN Append(outbox, [previewItem[1] EXCEPT !.p = object.p])
                         ELSE outbox
          /\ objectAnimated' = TRUE
          /\ SetPreview(resetPreview(PreviewState))
          /\ timers' = timers + 1
          /\ error' = "none"

\* handlePlayerInteraction(raycaster, MOUSE_CLICK) and (raycaster, VOICE),
\* the ray one of rays
CommitWith(rays) ==
  /\ Started
  /\ previewObject = <<>> \/ Len(placed) < MaxObjects
  /\ \E ray \in rays : placeObject(ray)
  /\ watch' = Note([WatchIdle EXCEPT !.kind = "commit",
                                     !.checkedAt = watch.checkedAt,
                                     !.before = <<PreviewState>>,
                                     !.count = Len(placed)])
  /\ UNCHANGED tour
  /\ UNCHANGED <<hasWater, inited, used, subscribed, userId, onlineUsers, now,
                 lastInteractionUpdate>>
  /\ UNCHANGED <<userMesh, room>>
  /\ UNCHANGED <<streamVars, gridVars, specialVars, oceanVars, geometryVars>>

Commit == CommitWith(Rays)

\* The callback placeObject hands to setTimeout.
TimerFire ==
  /\ timers > 0
  /\ timers' = timers - 1
  /\ objectAnimated' = FALSE
  /\ UNCHANGED <<hasWater, inited, used, subscribed, userId, onlineUsers,
                 previewItem, previewObject, currentSubBiome, intersectionSurface,
                 now, lastInteractionUpdate, crosshair, placed, outbox, error, committed>>
  /\ UNCHANGED <<streamVars, gridVars, specialVars, watchVars, oceanVars, geometryVars, roomVars>>

\* The local observer alone: mouse moves, commits and the clock, with every
\* preview and commit handler observed.
InitPreview ==
  /\ InitTerrain /\ InitGridIdle
  /\ hasWater \in BOOLEAN
  /\ InitInteraction
  /\ watch = WatchIdle
  /\ tour = NoTour
  /\ InitOceanIdle
  /\ InitGeometryIdle
  /\ room = Unheard

NextPreview ==
  Preload \/ TerrainInit \/ Tick \/ MouseMove \/ Commit \/ TimerFire

SpecPreview == InitPreview /\ [][NextPreview]_vars

\* ------------------------------------------------------------ multiplayer
\* Placement records the server can send: any organism record at any point.
RemoteItems ==
  {[n |-> o, p |-> pt, f |-> FALSE] : o \in {"beach", "forest"}, pt \in HitPoints}

\* data.usersConnected: the ids of the room's users, in the server's order
UserLists == {<<>>, <<"me">>, <<"u1">>, <<"me", "u1">>}

\* The socket's handlers are registered by init(): from then on the
\* server's events are handled.
Listening == used

\* The observation kept of a server event's handler, where one is kept.
Heard(rec) == IF room.on THEN rec ELSE room

\* The subscriber of watchObjectPlaced, applied to one emission of
\* objectPlaced$: the chunks' objects after it and the error it raised.
watchObjectPlaced(objs, item, origin) ==
  LET ch == getChunkAt(chunks, item.p[1], item.p[2])
  IN IF ch = Absent THEN [objs |-> objs, err |-> "AbsentChunk"]
     ELSE [objs |-> ChunkPlaceObject(objs, ch, ChunkGetObject(item, "record"),
                                     origin),
           err |-> "none"]

\* objectPlacedSource.next(...) for each item of a list, in order. An error
\* raised by the subscriber either ends the loop (stop) or is reported apart
\* from it, as the library delivering the emission decides.
RECURSIVE Replay(_, _, _, _)
Replay(objs, items, stop, err) ==
  IF items = <<>> THEN [objs |-> objs, err |-> err]
  ELSE LET r == watchObjectPlaced(objs, Head(items), "remote")
       IN IF r.err # "none" /\ stop THEN r
          ELSE Replay(r.objs, Tail(items), stop,
                      IF r.err # "none" THEN r.err ELSE err)

ReplayLists ==
  {<<>>} \cup UNION {[1..n -> RemoteItems] : n \in 1..MaxReplay}

\* The emissions on objectPlaced$ for the items of a list: each with the
\* animate flag, whether a subscriber heard it and whether the subscriber
\* found the chunk of its position.
Emissions(items, animate) ==
  [i \in 1..Len(items) |->
     [item |-> items[i], animate |-> animate, heard |-> subscribed,
      applied |-> subscribed
                  /\ getChunkAt(chunks, items[i].p[1], items[i].p[2]) # Absent]]

\* The emissions made before an error of the subscriber ended the loop.
EmittedUpTo(em, stop) ==
  LET failed == {i \in 1..Len(em) : em[i].heard /\ ~em[i].applied}
  IN IF stop /\ failed # {}
       THEN SubSeq(em, 1, CHOOSE i \in failed : \A j \in failed : i <= j)
     ELSE em

\* onRoomJoined replaying the room's objects on every join event.
ShouldReplayAlways(uid, me) == TRUE

\* onRoomJoined: !this.userId && this.userId !== data.me
ShouldReplay(uid, me) == uid = <<>> /\ uid # <<me>>

\* createUserMesh(userID): the clone's position
createUserMesh(users, userID) == <<Cardinality(users) * 3000, 10000, 0>>

\* onRoomJoined, the loop over usersConnected: a mesh is created, put in
\* onlineUsers and added to the scene for every user not yet in it, the
\* local user left out, with a notification on onlineStatus$ each time.
RECURSIVE AddUsers(_, _, _)
AddUsers(st, list, me) ==
  IF list = <<>> THEN st
  ELSE LET user == Head(list)
       IN IF user \notin st.users /\ <<user>> # me
            THEN AddUsers(
                   [users |-> st.users \cup {user},
                    mesh |-> [u \in st.users \cup {user} |->
                                IF u = user THEN createUserMesh(st.users, user)
                                ELSE st.mesh[u]],
                    scene |-> st.scene \cup {user},
                    notified |-> st.notified + 1],
                   Tail(list), me)
          ELSE AddUsers(st, Tail(list), me)

\* socket.on(SV_SEND_JOIN_ROOM): onRoomJoined(data), data.allObjects one of
\* lists and data.usersConnected one of userLists.  An error the subscriber
\* raises during the replay either ends the handler (stop) or is reported
\* apart from it.
SvJoinRoomOf(lists, userLists) ==
  /\ Listening
  /\ \E allObjects \in lists, usersConnected \in userLists, stop \in BOOLEAN :
       LET replay == ShouldReplay(userId, "me")
           me == IF replay THEN <<"me">> ELSE userId
           r == IF replay /\ subscribed
                  THEN Replay(placed, allObjects, stop, "none")
                  ELSE [objs |-> placed, err |-> "none"]
           aborted == stop /\ r.err # "none"
           idle == [users |-> onlineUsers, mesh |-> userMesh, scene |-> scene,
                    notified |-> 0]
       IN \E st \in {IF aborted THEN idle
                     ELSE AddUsers(idle, usersConnected, me)} :
          /\ Len(placed) + Len(allObjects) <= MaxObjects
          /\ userId' = me
          /\ placed' = r.objs
          /\ error' = r.err
          /\ committed' = NoCommit
          /\ onlineUsers' = st.users
          /\ userMesh' = st.mesh
          /\ scene' = st.scene
          /\ room' = Heard(
               [on |-> TRUE, kind |-> "join", first |-> replay,
                offered |-> allObjects,
                emitted |-> IF replay
                              THEN EmittedUpTo(Emissions(allObjects, FALSE), stop)
                              ELSE <<>>,
                replays |-> Min(room.replays + (IF replay THEN 1 ELSE 0), 2),
                user |-> <<>>, before |-> onlineUsers,
                meshBefore |-> userMesh, notified |-> st.notified,
                connected |-> (room.connected \cup SeqToSet(usersConnected))
                                \ SeqToSet(me)])
  /\ UNCHANGED <<hasWater, inited, used, subscribed, previewItem, previewObject,
                 currentSubBiome, intersectionSurface, objectAnimated, timers,
                 now, lastInteractionUpdate, crosshair, outbox>>
  /\ UNCHANGED <<streamVars, gridVars, specialVars, watchVars, oceanVars,
                 geometryVars>>

\* onObjectAdded(data): one emission on objectPlaced$, which reaches the
\* subscriber of watchObjectPlaced if Terrain has subscribed.
onObjectAdded(item, origin) ==
  LET r == IF subscribed THEN watchObjectPlaced(placed, item, origin)
           ELSE [objs |-> placed, err |-> "none"]
  IN /\ placed' = r.objs
     /\ error' = r.err
     /\ committed' = NoCommit
     /\ room' = Heard([RoomIdle EXCEPT
                         !.kind = "object",
                         !.emitted = Emissions(<<item>>, TRUE),
                         !.replays = room.replays,
                         !.before = onlineUsers,
                         !.meshBefore = userMesh,
                         !.connected = room.connected])
     /\ UNCHANGED <<hasWater, inited, used, subscribed, userId, onlineUsers,
                    previewItem, previewObject, currentSubBiome,
                    intersectionSurface, objectAnimated, timers, now,
                    lastInteractionUpdate, crosshair, outbox>>
     /\ UNCHANGED <<scene, userMesh>>
     /\ UNCHANGED <<streamVars, gridVars, specialVars, watchVars, oceanVars,
                    geometryVars>>

\* data.position of SV_SEND_PLAYER_POSITION
ServerPositions == {<<0, 0, 0>>, <<1, 1, 1>>}

\* socket.on(SV_SEND_PLAYER_POSITION): onPositionupdated(data), data.userID
\* one of users.  onlineUsers.get gives undefined for an id it does not
\* hold, and mesh.position then raises.
SvPositionOf(users) ==
  /\ Listening
  /\ \E user \in users, position \in ServerPositions :
       /\ error' = IF user \in onlineUsers THEN "none" ELSE "UnknownUser"
       /\ userMesh' = IF user \in onlineUsers
                        THEN [userMesh EXCEPT ![user] = position]
                        ELSE userMesh
       /\ room' = Heard([RoomIdle EXCEPT
                           !.kind = "position",
                           !.user = <<user>>,
                           !.replays = room.replays,
                           !.before = onlineUsers,
                           !.meshBefore = userMesh,
                           !.connected = room.connected])
  /\ committed' = NoCommit
  /\ UNCHANGED <<hasWater, inited, used, subscribed, userId, onlineUsers,
                 previewItem, previewObject, currentSubBiome, intersectionSurface,
                 objectAnimated, timers, now, lastInteractionUpdate, crosshair,
                 placed, outbox>>
  /\ UNCHANGED scene
  /\ UNCHANGED <<streamVars, gridVars, specialVars, watchVars, oceanVars,
                 geometryVars>>

\* socket.on(SV_SEND_DISCONNECTION): onDisconnection(data), data.userID one
\* of users.  scene.remove and Map.delete do nothing for an id that holds
\* no mesh; the notification on onlineStatus$ is sent in every case.
SvDisconnectionOf(users) ==
  /\ Listening
  /\ \E user \in users :
       /\ scene' = scene \ (onlineUsers \cap {user})
       /\ onlineUsers' = onlineUsers \ {user}
       /\ userMesh' = [u \in onlineUsers \ {user} |-> userMesh[u]]
       /\ room' = Heard([RoomIdle EXCEPT
                           !.kind = "disconnection",
                           !.user = <<user>>,
                           !.replays = room.replays,
                           !.before = onlineUsers,
                           !.meshBefore = userMesh,
                           !.notified = 1,
                           !.connected = room.connected \ {user}])
  /\ error' = "none"
  /\ committed' = NoCommit
  /\ UNCHANGED <<hasWater, inited, used, subscribed, userId, previewItem,
                 previewObject, currentSubBiome, intersectionSurface,
                 objectAnimated, timers, now, lastInteractionUpdate, crosshair,
                 placed, outbox>>
  /\ UNCHANGED <<streamVars, gridVars, specialVars, watchVars, oceanVars,
                 geometryVars>>

\* getOnlineUsersCount()
getOnlineUsersCount == Cardinality(onlineUsers) + 1

\* socket.on(SV_SEND_ADD_OBJECT) with a record of another user, one of items
SvAddObjectOf(items) ==
  /\ Listening
  /\ Len(placed) < MaxObjects
  /\ \E item \in items : onObjectAdded(item, "remote")

\* socket.on(SV_SEND_ADD_OBJECT) with a record this client emitted
SvEcho ==
  /\ Listening
  /\ Len(placed) < MaxObjects
  /\ \E i \in 1..Len(outbox) : onObjectAdded(outbox[i], "echo")

InitPlace ==
  /\ InitTerrain /\ InitGridIdle
  /\ hasWater \in BOOLEAN
  /\ InitInteraction
  /\ watch = Unwatched
  /\ tour = NoTour
  /\ InitOceanIdle
  /\ InitGeometryIdle
  /\ room = Unheard

\* The local observer previews and commits objects, alone or in a room whose
\* server sends the observer's own records back.
NextPlace ==
  \/ Preload \/ TerrainInit \/ MultiplayerInit \/ Tick
  \/ MouseMove \/ Commit \/ TimerFire \/ SvEcho
SpecPlace == InitPlace /\ [][NextPlace]_vars

\* The observer watches a room: the server's events arrive in any order.
NextOnline ==
  \/ Preload \/ TerrainInit \/ MultiplayerInit
  \/ SvJoinRoomOf(ReplayLists, UserLists) \/ SvAddObjectOf(RemoteItems)
SpecOnline == InitPlace /\ [][NextOnline]_vars

\* ------------------------------------------------------------ special objects
\* The draws of placeSpecialObject: the point (x, z) drawn inside the target
\* region, whether its height is at or below sea level, and whether its
\* elevation and moisture lie inside the bands of the special object.
SpecialPoints == {<<1, 1>>, <<WIDTH + 1, 1>>}
Draws ==
  {[pt |-> pt, low |-> l, inBand |-> b] :
     pt \in SpecialPoints, l \in BOOLEAN, b \in BOOLEAN}

\* new THREE.Object3D(), at the origin
BlankObject == [n |-> "Object3D", p |-> <<0, 0>>, f |-> FALSE, src |-> "none"]

\* The item placeSpecialObject builds from a draw.
SpecialItem(d) == [n |-> "special", p |-> d.pt, f |-> FALSE]

\* The tests that reject a draw before an item is built from it.
DrawRejected(underwater, d) == (~underwater /\ d.low) \/ ~d.inBand

\* The do ... while loop of placeSpecialObject. st holds the loop's variables
\* (it, chunk, object) and what is remembered of its course; a `continue`
\* jumps to the loop's condition, which is evaluated on the chunk of the draw
\* just rejected and on the object of the draw before it.
RECURSIVE SpecialLoop(_, _, _, _)
SpecialLoop(underwater, objs, draws, st) ==
  LET it == st.it + 1
      d == draws[it]
      ch == getChunkAt(chunks, d.pt[1], d.pt[2])
      rejected == DrawRejected(underwater, d)
      object == IF rejected THEN st.object
                ELSE <<ChunkGetObject(SpecialItem(d), "special")>>
      next == [st EXCEPT !.it = it, !.chunk = ch, !.object = object,
                         !.stale = st.stale \/ rejected, !.draw = <<d>>]
  IN IF it > SpecialCap
       THEN [st EXCEPT !.it = it, !.object = <<BlankObject>>, !.capped = TRUE]
     ELSE IF ch = Absent THEN [next EXCEPT !.err = "AbsentChunk"]
     ELSE IF object = <<>> THEN [next EXCEPT !.err = "UndefinedObject"]
     ELSE IF ChunkCanPlaceObject(objs, ch, object[1]) THEN next
     ELSE SpecialLoop(underwater, objs, draws, next)

\* The locals of placeSpecialObject before the loop: it = 0, no chunk, no
\* object.
LoopStart ==
  [it |-> 0, chunk |-> Absent, object |-> <<>>, stale |-> FALSE, draw |-> <<>>,
   capped |-> FALSE, err |-> "none"]

\* The sequences of draws one call can consume: the loop draws again only
\* while it goes on, so a sequence is followed as far as the loop reads it and
\* the draws the loop never makes are all taken to be its first.
PaddedDraws(prefix) ==
  [i \in 1..SpecialCap |-> IF i <= Len(prefix) THEN prefix[i] ELSE prefix[1]]

RECURSIVE SpecialRuns(_, _, _)
SpecialRuns(underwater, prefix, drawn) ==
  IF /\ Len(prefix) > 0
     /\ \/ Len(prefix) = SpecialCap
        \/ SpecialLoop(underwater, placed, PaddedDraws(prefix), LoopStart).it
             <= Len(prefix)
    THEN {PaddedDraws(prefix)}
  ELSE UNION {SpecialRuns(underwater, Append(prefix, d), drawn) : d \in drawn}

\* placeSpecialObject(special) with the default region, the whole world
placeSpecialObject(underwater, draws) ==
  \E st \in {SpecialLoop(underwater, placed, draws, LoopStart)} :
  LET ok == st.err = "none"
      objs == IF ok THEN ChunkPlaceObject(placed, st.chunk, st.object[1], "special")
              ELSE placed
  IN /\ placed' = objs
     /\ specialObjectList' = IF ok THEN Append(specialObjectList, st.object[1])
                             ELSE specialObjectList
     /\ error' = st.err
     /\ special' = [called |-> TRUE, underwater |-> underwater, it |-> st.it,
                    capped |-> st.capped, stale |-> st.stale, draw |-> st.draw,
                    added |-> IF ok THEN <<objs[Len(objs)]>> ELSE <<>>]

\* placeSpecialObject(special), its draws among drawn
PlaceSpecialOf(drawn) ==
  /\ chunks # {}
  /\ Len(placed) < MaxObjects
  /\ \E underwater \in BOOLEAN :
       \E draws \in SpecialRuns(underwater, <<>>, drawn) :
         placeSpecialObject(underwater, draws)
  /\ UNCHANGED <<hasWater, inited, used, subscribed, userId, onlineUsers,
                 previewItem, previewObject, currentSubBiome, intersectionSurface,
                 objectAnimated, timers, now, lastInteractionUpdate, crosshair,
                 outbox, committed>>
  /\ UNCHANGED <<streamVars, gridVars, watchVars, oceanVars, geometryVars, roomVars>>

\* The world's special objects are placed, one call after the other.
NextSpecial == Preload \/ TerrainInit \/ PlaceSpecialOf(Draws)
SpecSpecial == InitPlace /\ [][NextSpecial]_vars

\* ------------------------------------------------------------ ocean fields
\* Each run of the program seeds the generator with the seed of the world
\* and constructs its OceanBiome as the generator's first user; the fields
\* of a constructed biome are computed at any position, any number of times.
InitOcean ==
  /\ InitTerrain /\ InitGridIdle
  /\ hasWater = TRUE /\ InitInteraction /\ watch = Unwatched /\ tour = NoTour
  /\ seed \in 1..MaxSeed
  /\ biomes = [r \in Runs |-> <<>>]
  /\ samples = [r \in Runs |-> [pt \in OceanPoints |-> <<>>]]
  /\ probe = NoProbe
  /\ InitGeometryIdle
  /\ room = Unheard

\* new OceanBiome(generator) in the run r
Construct ==
  /\ \E r \in Runs :
       /\ biomes[r] = <<>>
       /\ biomes' = [biomes EXCEPT ![r] = <<OceanBiome(seed, 0)>>]
  /\ UNCHANGED <<seed, samples, probe>>
  /\ UNCHANGED <<streamVars, gridVars, placeVars, specialVars, watchVars, geometryVars, roomVars>>

\* computeElevationAt, computeMoistureAt and computeWaterMoistureAt at one
\* position, in the run r
Sample ==
  /\ \E r \in Runs, pt \in OceanPoints :
       /\ biomes[r] # <<>>
       /\ samples' =
            [samples EXCEPT ![r][pt] =
               LastTwo(Append(@,
                 [e |-> computeElevationAt(biomes[r][1], pt[1], pt[2]),
                  m |-> computeMoistureAt(biomes[r][1], pt[1], pt[2]),
                  wm |-> computeWaterMoistureAt(biomes[r][1], pt[1], pt[2])]))]
  /\ UNCHANGED <<seed, biomes, probe>>
  /\ UNCHANGED <<streamVars, gridVars, placeVars, specialVars, watchVars, geometryVars, roomVars>>

NextOcean == Construct \/ Sample
SpecOcean == InitOcean /\ [][NextOcean]_vars

\* getParametersAt(e, m) for a pair of the domain
Classify ==
  /\ \E e \in Elevations, m \in Moistures :
       probe' = [asked |-> TRUE, e |-> e, m |-> m,
                 params |-> getParametersAt(e, m)]
  /\ UNCHANGED <<seed, biomes, samples>>
  /\ UNCHANGED <<streamVars, gridVars, placeVars, specialVars, watchVars, geometryVars, roomVars>>

InitSubBiome == InitTerrain /\ InitGridIdle /\ InitPlaceIdle
SpecSubBiome == InitSubBiome /\ [][Classify]_vars

\* ------------------------------------------------------------ chunk meshes
\* The chunks of a world are constructed in any order, any number of times,
\* all with the simplex of the world's seed.
InitGeometry ==
  /\ InitTerrain /\ InitGridIdle
  /\ hasWater = TRUE /\ InitInteraction /\ watch = Unwatched /\ tour = NoTour
  /\ seed \in 1..MaxSeed
  /\ biomes = [r \in Runs |-> <<>>]
  /\ samples = [r \in Runs |-> [pt \in OceanPoints |-> <<>>]]
  /\ probe = NoProbe
  /\ InitGeometryIdle
  /\ room = Unheard

\* new Chunk(simplex, row, col): generate() builds the geometry
NewChunk ==
  /\ \E row \in 0..(MeshRows - 1), col \in 0..(MeshCols - 1) :
       built' = LastTwo(Append(built,
                  [row |-> row, col |-> col,
                   vertices |-> buildGeometry(seed, row, col)]))
  /\ UNCHANGED <<streamVars, gridVars, placeVars, specialVars, watchVars,
                 oceanVars, roomVars>>

SpecGeometry == InitGeometry /\ [][NewChunk]_vars

\* Every kind of operation on one world: the grid is loaded, the observer
\* updates the terrain from the origin, previews and commits, the server
\* delivers objects and special objects are placed.
WorldRays ==
  {[hits |-> <<"terrain">>, point |-> <<1, 1>>, near |-> TRUE, so |-> FALSE]}
WorldItems == {[n |-> "beach", p |-> <<1, 1>>, f |-> FALSE]}
WorldDraws == {d \in Draws : d.inBand /\ ~d.low}

NextWorld ==
  \/ Preload \/ UpdateAt \/ TerrainInit \/ MultiplayerInit
  \/ MouseMoveWith(WorldRays) \/ CommitWith(WorldRays)
  \/ SvAddObjectOf(WorldItems) \/ PlaceSpecialOf(WorldDraws)

SpecWorld == InitPlace /\ [][NextWorld]_vars

\* ------------------------------------------------------------------- room
\* A session in a room of three users: the services are initialised and the
\* chunks loaded in any order, while the server's join, object, position and
\* disconnection events arrive in any order, each handler observed.
RoomUsers == {"me", "u1", "u2"}
RoomUserLists ==
  {<<>>, <<"me">>, <<"me", "u1">>, <<"u1", "me">>, <<"me", "u2">>,
   <<"me", "u1", "u2">>, <<"u2", "u1", "me">>}
RoomReplays == {<<>>} \cup {<<item>> : item \in WorldItems}

InitRoom ==
  /\ InitTerrain /\ InitGridIdle
  /\ hasWater = TRUE
  /\ InitInteraction
  /\ watch = Unwatched
  /\ tour = NoTour
  /\ InitOceanIdle
  /\ InitGeometryIdle
  /\ room = RoomIdle

NextRoom ==
  \/ Preload \/ TerrainInit \/ MultiplayerInit
  \/ SvJoinRoomOf(RoomReplays, RoomUserLists) \/ SvAddObjectOf(WorldItems)
  \/ SvPositionOf(RoomUsers) \/ SvDisconnectionOf(RoomUsers)

SpecRoom == InitRoom /\ [][NextRoom]_vars

\* The local observer in a world with special objects: placeSpecialObject
\* calls, mouse moves whose ray hits at most one of water and terrain and
\* may hit a special object, commits and the clock, with every preview and
\* commit handler observed.
CrosshairRays == {r \in Rays : Len(r.hits) <= 1} \cup SpecialRays
CrosshairDraws == {d \in WorldDraws : d.pt = <<WIDTH + 1, 1>>}

NextCrosshair ==
  \/ Preload \/ TerrainInit \/ Tick \/ TimerFire
  \/ PlaceSpecialOf(CrosshairDraws)
  \/ MouseMoveWith(CrosshairRays) \/ CommitWith(WorldRays)

SpecCrosshair == InitPreview /\ [][NextCrosshair]_vars

\* ------------------------------------------------------------ properties
\* The window [start, end) as the current state holds it.
InWindowNow(k) ==
  /\ RowOf(k) >= start.row /\ RowOf(k) < end.row
  /\ ColOf(k) >= start.col /\ ColOf(k) < end.col

\* The window widened by one chunk on every side.
InMarginNow(k) ==
  /\ RowOf(k) >= start.row - 1 /\ RowOf(k) < end.row + 1
  /\ ColOf(k) >= start.col - 1 /\ ColOf(k) < end.col + 1

\* C1: after every update, every loaded chunk outside the window [start, end)
\* has been cleaned (it is dirty, holding no merged geometry or objects),
\* including a chunk that left the frustum before it left the window.
C1_OutsideWindowIsCleaned ==
  \A k \in chunks : ~InWindowNow(k) => dirty[k]

C3_PopulateOnlyDirtyVisible ==
  /\ \A k \in populated : k \in chunks /\ InWindowNow(k) /\ k \in frustum
  /\ \A k \in AllKeys : popSinceClean[k] <= 1
  /\ \A k \in AllKeys : dirty[k] <=> popSinceClean[k] = 0
  /\ \A i \in 1..Len(visibleChunks) : ~dirty[visibleChunks[i]]

C3_Witness ==
  \E k \in SeqToSet(visibleChunks) : k \notin populated /\ popSinceClean[k] = 1

\* C4: the window is [chunk - MAX_VISIBLE_CHUNKS, chunk + MAX_VISIBLE_CHUNKS)
\* on each axis clamped to the grid: start is never negative, end never
\* exceeds the chunk count, and the loop visits only rows and columns of the grid.
C4_WindowClampedToGrid ==
  /\ start.row >= 0 /\ start.col >= 0
  /\ end.row <= NCHUNKS_Z /\ end.col <= NCHUNKS_X
  /\ start.row >= chunk.row - MAX_VISIBLE_CHUNKS
  /\ start.col >= chunk.col - MAX_VISIBLE_CHUNKS
  /\ end.row <= chunk.row + MAX_VISIBLE_CHUNKS
  /\ end.col <= chunk.col + MAX_VISIBLE_CHUNKS
  /\ \A k \in visited : /\ RowOf(k) >= 0 /\ RowOf(k) < NCHUNKS_Z
                        /\ ColOf(k) >= 0 /\ ColOf(k) < NCHUNKS_X

C4_Witness ==
  /\ chunk.col >= NCHUNKS_X
  /\ end.col = NCHUNKS_X
  /\ visited # {}

\* A position query has been made, with the chunks loaded, at a position with
\* 0 <= x <= xhi and 0 <= z <= zhi.
QueriedWithin(xhi, zhi) ==
  /\ found.asked
  /\ found.loaded
  /\ qx >= 0 /\ qx <= xhi
  /\ qz >= 0 /\ qz <= zhi

\* What C5 says of the query's result: the coordinate is a cell of the grid,
\* the position lies in that cell's footprint, and the chunk returned is the
\* loaded chunk of that cell.
FoundInGrid ==
  /\ found.coord.row >= 0 /\ found.coord.row < NCHUNKS_Z
  /\ found.coord.col >= 0 /\ found.coord.col < NCHUNKS_X
  /\ found.coord.col * WIDTH <= qx /\ qx < (found.coord.col + 1) * WIDTH
  /\ found.coord.row * DEPTH <= qz /\ qz < (found.coord.row + 1) * DEPTH
  /\ found.chunk = <<found.coord.row, found.coord.col>>
  /\ found.chunk \in chunks

\* C5 as stated: for every position with 0 <= x <= SIZE_X and 0 <= z <= SIZE_Z
\* the coordinate is in the grid, contains the position, and getChunkAt returns
\* that chunk.
C5_LookupClosedRange == QueriedWithin(SIZE_X, SIZE_Z) => FoundInGrid

\* C5: for every position with 0 <= x < SIZE_X and 0 <= z < SIZE_Z the
\* coordinate is in the grid, its footprint contains the position, and
\* getChunkAt returns the loaded chunk of that coordinate.
\* On the far edges x = SIZE_X or z = SIZE_Z no chunk is found.
C5_LookupHalfOpenRange ==
  /\ QueriedWithin(SIZE_X - 1, SIZE_Z - 1) => FoundInGrid
  /\ (QueriedWithin(SIZE_X, SIZE_Z) /\ (qx = SIZE_X \/ qz = SIZE_Z)) =>
       found.chunk = Absent

C5_Witness ==
  /\ QueriedWithin(SIZE_X - 1, SIZE_Z - 1)
  /\ qx = SIZE_X - WIDTH
  /\ found.coord.col = NCHUNKS_X - 1

\* C6: no Terrain operation that resolves a chunk from a world position
\* dereferences an absent chunk: with a position that maps to no chunk the
\* local commit and the remote object-placed handler raise no error.
C6_AbsentChunkRaisesNoError == error # "AbsentChunk"

\* This step commits the preview object: placeObject adds it to a chunk.
LocalCommitStep ==
  /\ Len(placed') = Len(placed) + 1
  /\ placed'[Len(placed')].origin = "local"

\* C7: every object a local commit adds to a chunk satisfies canPlaceObject
\* on that chunk, at the position where it is committed, when it is committed.
C7_CommitSatisfiesCanPlace ==
  [][LocalCommitStep =>
       ChunkCanPlaceObject(placed, placed'[Len(placed')].chunk,
                           placed'[Len(placed')])]_vars

\* C8: with water disabled the preview never takes its target from a hit on
\* the water mesh, and no commit takes its chunk or the position of its object
\* from a hit on the water mesh.
C8_NoWaterTargetWithoutWater ==
  ~hasWater =>
    /\ intersectionSurface # <<"water">>
    /\ previewObject # <<>> => previewObject[1].src # "water"
    /\ committed.chunk # "water"
    /\ committed.position # "water"

\* The placement record of an object a chunk holds.
RecordOf(o) == [n |-> o.n, p |-> o.p, f |-> o.f]

\* C9: however often a remote placement record is delivered on objectPlaced$,
\* the chunks hold at most one object placed for it.
C9_RemoteRecordPlacedOnce ==
  \A r \in RemoteItems :
    Cardinality({i \in 1..Len(placed) :
                   placed[i].origin = "remote" /\ RecordOf(placed[i]) = r}) <= 1

\* C10: in multiplayer mode a local commit emits exactly one record, holding
\* the committed object's position; in single-player mode it emits none;
\* nothing else emits; and a record the server sends back to its sender places
\* no object.
C10_OneRecordPerCommitNoEcho ==
  [][/\ LocalCommitStep /\ used =>
          outbox' = Append(outbox, RecordOf(placed'[Len(placed')]))
     /\ LocalCommitStep /\ ~used => outbox' = outbox
     /\ ~LocalCommitStep => outbox' = outbox
     /\ \A i \in 1..Len(placed') : placed'[i].origin # "echo"]_vars

\* The last placeSpecialObject call placed an object built from a draw.
SpecialCommitted ==
  special.called /\ ~special.capped /\ special.added # <<>>

\* C11: an object placeSpecialObject commits from a drawn candidate is built
\* from the most recent draw, which passed the band and underwater tests and
\* canPlaceObject, and is placed on the chunk that owns its (x, z); no
\* rejected draw is followed by an evaluation of canPlaceObject.
C11_SpecialCommitsLastAcceptedDraw ==
  SpecialCommitted =>
    /\ special.added[1].p = special.draw[1].pt
    /\ special.draw[1].inBand
    /\ ~special.underwater => ~special.draw[1].low
    /\ <<special.added[1].chunk[1], special.added[1].chunk[2]>> =
         getChunkAt(chunks, special.added[1].p[1], special.added[1].p[2])
    /\ ~special.stale

\* C12: placeSpecialObject makes at most SpecialCap draws; a call that reaches
\* the cap adds nothing to a chunk or to specialObjectList and raises no error.
C12_SpecialCapSkipsObject ==
  [][/\ special'.it <= SpecialCap + 1
     /\ special'.capped =>
          /\ placed' = placed
          /\ specialObjectList' = specialObjectList
          /\ error' = "none"]_vars

\* What the last handler started from, and the hit of its ray.
Before == watch.before[1]
Hit == watch.hit[1]

\* The last handler was a run of manageObjectPreview that got to its candidate.
CheckedCandidate == watch.kind = "check" /\ watch.stage = "candidate"

\* C13: two runs of manageObjectPreview are at least the throttle interval
\* apart, and a MOUSE_MOVE between two runs changes nothing of the preview
\* but the position of the ghost object: previewItem, currentSubBiome,
\* intersectionSurface and the crosshair stay as they were.
C13_ChecksThrottledTrackingMovesOnly ==
  /\ Len(watch.checkedAt) = 2 =>
       watch.checkedAt[2] - watch.checkedAt[1] >= Throttle
  /\ watch.kind = "track" =>
       /\ previewItem = Before.item
       /\ currentSubBiome = Before.biome
       /\ intersectionSurface = Before.surface
       /\ crosshair = Before.cross
       /\ Len(placed) = watch.count
       /\ (previewObject = <<>>) = (Before.object = <<>>)
       /\ previewObject # <<>> =>
            /\ previewObject[1].n = Before.object[1].n
            /\ previewObject[1].f = Before.object[1].f

C13_Witness ==
  /\ Len(watch.checkedAt) = 2
  /\ watch.kind = "track"
  /\ previewObject # <<>>
  /\ previewObject[1].p # Before.object[1].p

\* The preview the handler started from is stale for the hit.
Stale ==
  \/ Before.item = <<>>
  \/ Before.biome # <<getSubBiome(Hit.point)>>
  \/ Before.surface # <<Hit.object>>

Rejected ==
  /\ CheckedCandidate
  /\ watch.can = "false" \/ (watch.pick # <<>> /\ watch.item = <<>>)

ThereAndBack ==
  /\ Len(tour.log) = 3
  /\ tour.log[1].x = tour.log[3].x
  /\ tour.log[1].z = tour.log[3].z
  /\ tour.log[2].chunk # tour.log[1].chunk
  /\ tour.log[1].loaded = tour.log[3].loaded

\* C16: under one frustum predicate, an update at a position, one in another
\* chunk and one at the first position again leave the visible set of the
\* first update: the same chunks in visibleChunks, their flag true, and the
\* flag of every other chunk false.
C16_ThereAndBackRestoresVisible ==
  ThereAndBack =>
    /\ tour.log[3].list = tour.log[1].list
    /\ tour.log[3].flags = tour.log[1].list
    /\ tour.log[1].flags = tour.log[1].list
    /\ SeqToSet(visibleChunks) = tour.log[1].list
    /\ \A k \in AllKeys : visible[k] = (k \in tour.log[1].list)

C16_Witness ==
  /\ ThereAndBack
  /\ tour.log[1].loaded
  /\ tour.log[1].list # {}
  /\ tour.log[2].list # {}
  /\ tour.log[2].list # tour.log[1].list

\* C17: once preload() has run, the grid holds one chunk for every (row, col)
\* of the region and nothing else, each found under its own row and col, all
\* of them invisible at first; no update, preview, commit, remote placement
\* or special-object placement changes the entries of the grid.
C17_GridLoadedOnceAndKept ==
  /\ [](chunks # {} =>
          /\ chunks = AllKeys
          /\ \A r \in 0..(NCHUNKS_Z - 1), c \in 0..(NCHUNKS_X - 1) :
               /\ getChunk(chunks, r, c) # Absent
               /\ RowOf(getChunk(chunks, r, c)) = r
               /\ ColOf(getChunk(chunks, r, c)) = c)
  /\ [][chunks = {} /\ chunks' # {} => \A k \in chunks' : ~visible'[k]]_vars
  /\ [][chunks # {} => chunks' = chunks]_vars

C17_Witness ==
  /\ chunks = AllKeys
  /\ visibleChunks # <<>>
  /\ previewObject # <<>>
  /\ \E i \in 1..Len(placed) : placed[i].origin = "remote"
  /\ special.called /\ specialObjectList # <<>>

\* C18: the sub-biome lookup of the ocean answers every (e, m) pair with
\* CORAL_REEF or OCEAN, never with nothing: CORAL_REEF when m < 0.4, OCEAN
\* when m >= 0.4, whatever e is.
C18_OceanSubBiomesPartition ==
  probe.asked =>
    /\ probe.params \in {"CORAL_REEF", "OCEAN"}
    /\ probe.params = "CORAL_REEF" <=> probe.m[1] < (4 * Scale) \div 10
    /\ probe.params = "OCEAN" <=> probe.m[1] >= (4 * Scale) \div 10

C18_Witness ==
  /\ probe.asked
  /\ probe.m = Num((4 * Scale) \div 10)
  /\ probe.e = NaN
  /\ probe.params = "OCEAN"

\* The value is a number with at most two decimal digits.
IsHundredth(v) == v # NaN /\ v[1] % (Scale \div 100) = 0

\* C19: every elevation, moisture and water moisture computed is a number
\* rounded to two decimal digits.
C19_FieldsRoundedToHundredths ==
  \A r \in Runs, pt \in OceanPoints :
    \A i \in 1..Len(samples[r][pt]) :
      /\ IsHundredth(samples[r][pt][i].e)
      /\ IsHundredth(samples[r][pt][i].m)
      /\ IsHundredth(samples[r][pt][i].wm)

EdgeOf(b, side) ==
  CASE side = "left" -> [r \in 0..NROWS |-> b.vertices[VertexIndex(0, r)]]
    [] side = "right" -> [r \in 0..NROWS |-> b.vertices[VertexIndex(NCOLS, r)]]
    [] side = "top" -> [c \in 0..NCOLS |-> b.vertices[VertexIndex(c, 0)]]
    [] side = "bottom" -> [c \in 0..NCOLS |-> b.vertices[VertexIndex(c, NROWS)]]

C21_SharedEdgeVerticesIdentical ==
  \A i, j \in 1..Len(built) :
    /\ (built[i].row = built[j].row /\ built[i].col + 1 = built[j].col)
         => EdgeOf(built[i], "right") = EdgeOf(built[j], "left")
    /\ (built[i].col = built[j].col /\ built[i].row + 1 = built[j].row)
         => EdgeOf(built[i], "bottom") = EdgeOf(built[j], "top")

\* Two chunks side by side away from the origin, whose shared edge is not
\* flat and differs from the first chunk's opposite edge.
C21_Witness ==
  /\ Len(built) = 2
  /\ built[1].row = built[2].row /\ built[1].row > 0
  /\ built[1].col + 1 = built[2].col /\ built[1].col > 0
  /\ \E r1, r2 \in 0..NROWS :
       EdgeOf(built[2], "left")[r1][2] # EdgeOf(built[2], "left")[r2][2]
  /\ \E r \in 0..NROWS :
       EdgeOf(built[1], "left")[r][2] # EdgeOf(built[1], "right")[r][2]


\* The last handler was a MOUSE_MOVE inside the throttle interval
\* (updateObjectPreview) with a preview object and a ray that hits neither
\* the water nor the terrain.
TrackedWithoutHit ==
  /\ watch.kind = "track"
  /\ Before.object # <<>>
  /\ watch.hit = <<>>

\* C22: a MOUSE_MOVE inside the throttle interval, with a preview object
\* and a ray that hits neither the water nor the terrain, completes without
\* an error and leaves the preview object's position and the preview state
\* as they were.
C22_TrackingWithoutHitRaisesNoError ==
  TrackedWithoutHit => (error = "none" /\ PreviewState = Before)


\* C23: after every Terrain.update a chunk's visible flag is true exactly
\* when the chunk is in visibleChunks; visibleChunks holds no chunk twice,
\* and every chunk in it is loaded, lies inside the current window
\* [start, end) and had its bounding box intersect the frustum.
C23_VisibleFlagsMatchVisibleChunks ==
  /\ \A k \in AllKeys : visible[k] <=> k \in SeqToSet(visibleChunks)
  /\ \A i, j \in 1..Len(visibleChunks) :
       i # j => visibleChunks[i] # visibleChunks[j]
  /\ \A k \in SeqToSet(visibleChunks) :
       k \in chunks /\ InsideWindow(k, start, end) /\ k \in frustum

\* An update made a chunk visible, took the flag from a chunk that was
\* visible before it, and left a loaded chunk of the frustum outside the
\* window.
C23_Witness ==
  /\ visibleChunks # <<>>
  /\ prevVisible \ SeqToSet(visibleChunks) # {}
  /\ \E k \in chunks \cap frustum : ~InsideWindow(k, start, end)

\* A chunk that was visible at the previous update, lies inside the window
\* of the last one and was not in its frustum.
SetAside(k) ==
  k \in prevVisible /\ InsideWindow(k, start, end) /\ k \notin frustum

\* A populated chunk that is not visible and lies inside the window.
Retained(k) == ~dirty[k] /\ ~visible[k] /\ InsideWindow(k, start, end)

\* C24: a chunk that was visible at the previous update, is still inside
\* the new window but no longer intersects the frustum is set invisible and
\* is not cleaned: it stays populated; and a populated, invisible chunk
\* inside the window that the next update finds inside its window and in
\* its frustum is made visible without being populated again.
C24_SetAsideChunkKeepsItsContent ==
  /\ [](\A k \in AllKeys :
          SetAside(k) => ~visible[k] /\ k \notin cleaned /\ Retained(k))
  /\ [][\A k \in AllKeys :
          (Retained(k) /\ InsideWindow(k, start', end') /\ k \in frustum'
             /\ k \in chunks)
            => (visible'[k] /\ k \notin populated' /\ k \notin cleaned'
                  /\ ~dirty'[k]
                  /\ popSinceClean'[k] = popSinceClean[k])]_vars

\* The last update set one chunk aside and made visible again, without
\* populating it, a chunk that an earlier update had set aside.
C24_Witness ==
  /\ \E k \in AllKeys : SetAside(k) /\ popSinceClean[k] = 1
  /\ \E k \in AllKeys :
       /\ visible[k] /\ k \notin prevVisible /\ k \notin populated
       /\ InsideWindow(k, start, end) /\ popSinceClean[k] = 1


\* The objects local commits gave to the chunks.
LocalObjects(objs) == SelectSeq(objs, LAMBDA o : o.origin = "local")

\* C25: from a local commit until its delayed callback fires objectAnimated
\* is true and there is no preview object, and no MOUSE_MOVE, MOUSE_CLICK or
\* VOICE event commits an object or emits a record in between; so at most
\* one callback is pending, and objectAnimated is true exactly while it is:
\* the callback that clears the flag is the one of the last commit.
C25_OneAnimationAtATime ==
  /\ [](/\ timers <= 1
        /\ objectAnimated <=> timers = 1
        /\ objectAnimated => previewObject = <<>> /\ previewItem = <<>>)
  /\ [][objectAnimated =>
          /\ LocalObjects(placed') = LocalObjects(placed)
          /\ outbox' = outbox
          /\ previewObject' = <<>>
          /\ timers' <= timers]_vars

\* While the callback of a commit is pending, a MOUSE_MOVE outside the
\* throttle interval has run manageObjectPreview, which returned at once.
C25_Witness ==
  /\ objectAnimated /\ timers = 1
  /\ LocalObjects(placed) # <<>>
  /\ watch.kind = "check" /\ watch.stage = "animated"


\* C26: whenever an interaction handler of Terrain has returned, there is a
\* preview object exactly when the crosshair is in the CAN_PLACE_OBJECT
\* state, and a preview object comes with a preview item, a current
\* sub-biome and an intersection surface, and is in the scene.
C26_PreviewExactlyWhenCanPlace ==
  /\ previewObject # <<>> <=> crosshair.state = "CAN_PLACE_OBJECT"
  /\ previewObject # <<>> =>
       /\ previewItem # <<>>
       /\ currentSubBiome # <<>>
       /\ intersectionSurface # <<>>
       /\ "preview" \in scene
  /\ previewObject = <<>> => "preview" \notin scene

\* A MOUSE_MOVE whose ray hit a special object found a preview object, took
\* it away and left the crosshair in the CAN_INTERACT_WITH_OBJECT state.
C26_Witness ==
  /\ watch.kind = "check" /\ watch.stage = "special"
  /\ Before.object # <<>> /\ "preview" \in Before.scene
  /\ previewObject = <<>>
  /\ crosshair.state = "CAN_INTERACT_WITH_OBJECT"


\* C27: the objects already placed in the room are replayed on
\* objectPlaced$, with animate = false, only by the first join event of a
\* session, the one that sets the local user id; every later join event
\* replays nothing, so each object of the room is emitted at most once.
C27_RoomReplayedOnceByFirstJoin ==
  /\ room.replays <= 1
  /\ room.replays = 1 <=> userId # <<>>
  /\ room.kind = "join" =>
       /\ ~room.first => room.emitted = <<>>
       /\ Len(room.emitted) <= Len(room.offered)
       /\ \A i \in 1..Len(room.emitted) :
            /\ ~room.emitted[i].animate
            /\ room.emitted[i].item = room.offered[i]

\* A join event after the first one of the session carried the room's
\* objects and replayed none of them.
C27_Witness ==
  /\ room.kind = "join" /\ ~room.first
  /\ room.offered # <<>>
  /\ room.emitted = <<>>
  /\ room.replays = 1

\* C28: every placement record the multiplayer service emits on
\* objectPlaced$, in the replay of a join event or for an
\* SV_SEND_ADD_OBJECT event, is applied to the chunk that owns its
\* position, however the server's events interleave with
\* MultiplayerService.init, Terrain.init and Terrain.preload: the record
\* reaches a subscriber, the subscriber finds the chunk, and no error is
\* raised.
C28_EveryEmittedRecordIsApplied ==
  \A i \in 1..Len(room.emitted) :
    /\ room.emitted[i].heard
    /\ room.emitted[i].applied
    /\ error = "none"

\* C29: an SV_SEND_PLAYER_POSITION event for a user id that onlineUsers
\* does not hold is ignored without an error, and for a user it holds the
\* event changes the position of that user's mesh and nothing else.
C29_PositionOfUnknownUserIgnored ==
  room.kind = "position" =>
    /\ error = "none"
    /\ onlineUsers = room.before
    /\ \A u \in onlineUsers \ SeqToSet(room.user) :
         userMesh[u] = room.meshBefore[u]
    /\ room.user[1] \notin room.before => userMesh = room.meshBefore

\* C30: after any sequence of join and disconnection events onlineUsers
\* holds one mesh for each of its ids and none for the local user's id, the
\* meshes in the scene are those of the users it holds,
\* getOnlineUsersCount() is the number of other users connected plus one,
\* and the handler sent as many online-status notifications as it added or
\* removed users.
C30_OnlineUsersTrackTheRoom ==
  /\ DOMAIN userMesh = onlineUsers
  /\ \A u \in onlineUsers : <<u>> # userId
  /\ \A u \in RoomUsers : u \in scene <=> u \in onlineUsers
  /\ getOnlineUsersCount = Cardinality(room.connected) + 1
  /\ room.kind \in {"join", "disconnection"} =>
       room.notified = Cardinality((onlineUsers \ room.before)
                                     \cup (room.before \ onlineUsers))

====
